---- MODULE Spec2Model ----
(***************************************************************************)
(* A model of inkycal/custom/functions.py (write, text_wrap, draw_border)  *)
(* and of inkycal/modules/inkycal_slideshow.py (Slideshow).                *)
(*                                                                         *)
(* Each function is a sequential program; pc names the statement about to  *)
(* run and one record per function holds its local variables under the     *)
(* names the source gives them.  The four programs are independent, so     *)
(* each has a specification of its own (SpecWrite, SpecWrap, SpecBorder,   *)
(* SpecSlideshow); the variables of the programs a specification does not  *)
(* run stay at their idle values.                                          *)
(***************************************************************************)
EXTENDS Integers, Sequences, FiniteSets, TLC

VARIABLES pc, wr, image, tw, bd, ss, hist

vars == <<pc, wr, image, tw, bd, ss, hist>>

\* ------------------------------------------------------------ bounds ----

MaxBoxW == 8
MaxBoxH == 13
MaxSize == 20
MaxWidth == 6
MaxLen == 4
MaxImages == 3
MaxBorder == 7
MaxRadius == 3
MaxCalls == 7

\* ------------------------------------------------- Python arithmetic ----

\* Python's int() of the rational n/d (d > 0): truncation toward zero.
\* Every float the source hands to int() is, for the ratios drawn here
\* (1.0, 0.8, 0.5, 0.1, 0.25 and halves of integers), within rounding of
\* the exact rational and never on the wrong side of an integer.
int(n, d) == IF n >= 0 THEN n \div d ELSE -((-n) \div d)

\* A decimal argument (fill_width, fill_height, shrinkage) as <<num, den>>.
Num(f) == f[1]
Den(f) == f[2]
F1_0 == <<1, 1>>
F0_8 == <<4, 5>>
F0_5 == <<1, 2>>
F0_0 == <<0, 1>>
F0_1 == <<1, 10>>
F0_25 == <<1, 4>>

\* Python's None, for an argument that is otherwise a string.
None == "<None>"

\* Python's tuple order: (a1, a2) > (b1, b2).
TupleGT(a1, a2, b1, b2) == a1 > b1 \/ (a1 = b1 /\ a2 > b2)

\* -------------------------------------------------------- the font ------

\* A font handle is [path, size].  getsize is PIL's; it is modelled as the
\* sum of the characters' advances, scaled by the size and rounded down per
\* character, with four units to the em.
FontPaths == {"regular", "wide"}
Chars == {"i", "m", " "}

Advance(path, c) ==
  IF path = "regular"
  THEN (CASE c = "i" -> 1 [] c = "m" -> 3 [] OTHER -> 1)
  ELSE (CASE c = "i" -> 2 [] c = "m" -> 4 [] OTHER -> 2)

HgUnits(path) == IF path = "regular" THEN 4 ELSE 5

truetype(path, size) == [path |-> path, size |-> size]

CharWidth(font, c) == (Advance(font.path, c) * font.size) \div 4

RECURSIVE SumWidth(_, _)
SumWidth(font, text) ==
  IF text = <<>> THEN 0
  ELSE CharWidth(font, Head(text)) + SumWidth(font, Tail(text))

\* font.getsize(text)[0]
getsize_w(font, text) == SumWidth(font, text)

\* font.getsize('hg')[1]
getsize_hg(font) == (HgUnits(font.path) * font.size) \div 4

\* text[0:-1]
DropLast(text) == IF text = <<>> THEN <<>> ELSE SubSeq(text, 1, Len(text) - 1)

\* ----------------------------------------------------------- write ------

\* Line 69: the size the autofit loop starts from.
MinFontSize == 8
\* The size of the font handle the caller passes in.
CallerFontSize == 4

Texts == {<<>>, <<"i">>, <<"m">>, <<"m", "i">>, <<"i", "m", "m">>}
Alignments == {"center", "left", "right", None}
\* rotation: <<>> is None, <<a>> is the angle a.
Rotations == {<<>>, <<90>>}
Origins == {<<0, 0>>, <<5, 7>>}
Fills == {<<F1_0, F0_8>>, <<F0_5, F1_0>>}

IdleWrite == [active |-> FALSE]
IdleWrap == [active |-> FALSE]
IdleBorder == [active |-> FALSE]
IdleSlideshow == [constructed |-> FALSE]
IdleHist == [initial |-> <<>>, shown |-> <<>>]

\* int(box * fill): the target of the autofit loop in one dimension.
FillTarget(box, fill) == int(box * Num(fill), Den(fill))

\* FitCond with the height compared the wrong way round.
FitCond_flipped(font, text, box_width, box_height, fill_width, fill_height) ==
  /\ getsize_w(font, text) < FillTarget(box_width, fill_width)
  /\ getsize_hg(font) > FillTarget(box_height, fill_height)

\* The while condition of lines 72-73 at the font `font`.
FitCond(font, text, box_width, box_height, fill_width, fill_height) ==
  /\ getsize_w(font, text) < FillTarget(box_width, fill_width)
  /\ getsize_hg(font) < FillTarget(box_height, fill_height)

\* Lines 72-76: the loop, from the font `font` on.  The size is capped at
\* MaxSize so that the search is finite; AutofitCapUnused states that no box
\* drawn here lets the loop reach the cap.
RECURSIVE AutofitLoop(_, _, _, _, _, _)
AutofitLoop(font, text, box_width, box_height, fill_width, fill_height) ==
  IF /\ font.size < MaxSize
     /\ FitCond(font, text, box_width, box_height, fill_width, fill_height)
  THEN AutofitLoop(truetype(font.path, font.size + 1), text,
                   box_width, box_height, fill_width, fill_height)
  ELSE font

\* Lines 69-76: the font the autofit branch leaves active.
AutofitFont(path, text, box_width, box_height, fill_width, fill_height) ==
  AutofitLoop(truetype(path, MinFontSize), text,
              box_width, box_height, fill_width, fill_height)

\* Line 68: whether the autofit branch runs.
AutofitRequested(autofit, fill_width, fill_height) ==
  autofit \/ fill_width # F1_0 \/ fill_height # F0_8

\* Lines 82 and 84: (text_width, text_height) > (box_width, box_height).
TruncCond(w) == TupleGT(w.text_width, w.text_height, w.box_width, w.box_height)

\* Lines 90-95: the x the text is drawn at; x is xy[0] on entry (line 64).
\* `alignment == "center" or None` is `alignment == "center"`.
AlignX(alignment, x, box_width, text_width) ==
  IF alignment = "center" THEN int(box_width - text_width, 2)
  ELSE IF alignment = "left" THEN 0
  ELSE IF alignment = "right" THEN box_width - text_width
  ELSE x

\* Line 97.
AlignY(box_height, text_height) == int(box_height - text_height, 2)

\* Lines 101-104: the scratch layer with the text drawn on it.
DrawnLayer(w) ==
  [size |-> <<w.box_width, w.box_height>>, text |-> w.text, font |-> w.font,
   at |-> <<w.x, w.y>>, angle |-> 0]

\* Image.rotate(angle, expand = True): a new layer; the receiver is unchanged.
rotate_layer(layer, angle) == [layer EXCEPT !.angle = angle % 360]

\* Lines 57-65: the call, its keyword arguments and the unpacking of xy and
\* box_size.  The canvas is the caller's, blank here.
WriteCall ==
  /\ pc = "idle"
  /\ \E xy \in Origins, bwd \in 0..MaxBoxW, bht \in 0..MaxBoxH, text \in Texts,
        path \in FontPaths, alignment \in Alignments, autofit \in BOOLEAN,
        fill \in Fills, rotation \in Rotations :
       /\ wr' = [xy |-> xy, box_width |-> bwd, box_height |-> bht,
                 text |-> text, text0 |-> text,
                 font |-> truetype(path, CallerFontSize),
                 alignment |-> alignment, autofit |-> autofit,
                 fill_width |-> fill[1], fill_height |-> fill[2],
                 rotation |-> rotation,
                 text_width |-> 0, text_height |-> 0,
                 x |-> xy[1], y |-> xy[2],
                 space |-> <<>>, rotated |-> <<>>, fitted |-> FALSE]
  /\ image' = <<>>
  /\ pc' = "l68"
  /\ UNCHANGED <<tw, bd, ss, hist>>

\* Lines 68-76, the branch taken.
WriteAutofit ==
  /\ pc = "l68"
  /\ AutofitRequested(wr.autofit, wr.fill_width, wr.fill_height)
  /\ LET f == AutofitFont(wr.font.path, wr.text, wr.box_width, wr.box_height,
                          wr.fill_width, wr.fill_height)
     IN wr' = [wr EXCEPT !.font = f,
                         !.text_width = getsize_w(f, wr.text),
                         !.text_height = getsize_hg(f),
                         !.fitted = TRUE]
  /\ pc' = "l78"
  /\ UNCHANGED <<image, tw, bd, ss, hist>>

\* Line 68, the branch not taken.
WriteNoAutofit ==
  /\ pc = "l68"
  /\ ~AutofitRequested(wr.autofit, wr.fill_width, wr.fill_height)
  /\ pc' = "l78"
  /\ UNCHANGED <<wr, image, tw, bd, ss, hist>>

\* Line 78.
WriteMeasure ==
  /\ pc = "l78"
  /\ wr' = [wr EXCEPT !.text_width = getsize_w(wr.font, wr.text),
                      !.text_height = getsize_hg(wr.font)]
  /\ pc' = "l82"
  /\ UNCHANGED <<image, tw, bd, ss, hist>>

\* Line 82.
WriteTruncateCheck ==
  /\ pc = "l82"
  /\ pc' = IF TruncCond(wr) THEN "l84" ELSE "l90"
  /\ UNCHANGED <<wr, image, tw, bd, ss, hist>>

\* Lines 84-86: one iteration of the truncation loop.
WriteTruncateStep ==
  /\ pc = "l84"
  /\ TruncCond(wr)
  /\ LET t == DropLast(wr.text)
     IN wr' = [wr EXCEPT !.text = t,
                         !.text_width = getsize_w(wr.font, t),
                         !.text_height = getsize_hg(wr.font)]
  /\ pc' = "l84"
  /\ UNCHANGED <<image, tw, bd, ss, hist>>

\* Line 84, the condition false: the loop is left.
WriteTruncateExit ==
  /\ pc = "l84"
  /\ ~TruncCond(wr)
  /\ pc' = "l90"
  /\ UNCHANGED <<wr, image, tw, bd, ss, hist>>

\* Lines 90-97.
WriteAlign ==
  /\ pc = "l90"
  /\ wr' = [wr EXCEPT !.x = AlignX(wr.alignment, wr.x, wr.box_width, wr.text_width),
                      !.y = AlignY(wr.box_height, wr.text_height)]
  /\ pc' = "l100"
  /\ UNCHANGED <<image, tw, bd, ss, hist>>

\* Lines 100-104.
WriteDraw ==
  /\ pc = "l100"
  /\ wr' = [wr EXCEPT !.space = <<DrawnLayer(wr)>>]
  /\ pc' = "l111"
  /\ UNCHANGED <<image, tw, bd, ss, hist>>

\* Lines 111-112: the rotated copy is the value of an expression statement;
\* `rotated` records it, `space` stays bound to the layer of line 101.
WriteRotate ==
  /\ pc = "l111"
  /\ wr' = IF wr.rotation # <<>>
           THEN [wr EXCEPT !.rotated = <<rotate_layer(wr.space[1], wr.rotation[1])>>]
           ELSE wr
  /\ pc' = "l115"
  /\ UNCHANGED <<image, tw, bd, ss, hist>>

\* The layer line 115 hands to image.paste.
PastedLayer(w) == w.space[1]

\* Line 115: image.paste(space, xy, space).
WritePaste ==
  /\ pc = "l115"
  /\ image' = Append(image, [op |-> "paste", layer |-> PastedLayer(wr),
                             at |-> wr.xy, mask |-> PastedLayer(wr)])
  /\ pc' = "done"
  /\ UNCHANGED <<wr, tw, bd, ss, hist>>

\* The return to the caller: the frame is gone.  The next call is given a
\* canvas of its own.
WriteReturn ==
  /\ pc = "done"
  /\ pc' = "idle"
  /\ wr' = IdleWrite
  /\ image' = <<>>
  /\ UNCHANGED <<tw, bd, ss, hist>>

\* Before any call: no frame, a blank canvas, no Slideshow object.
Init ==
  /\ pc = "idle"
  /\ wr = IdleWrite
  /\ image = <<>>
  /\ tw = IdleWrap
  /\ bd = IdleBorder
  /\ ss = IdleSlideshow
  /\ hist = IdleHist

NextWrite ==
  \/ WriteCall
  \/ WriteAutofit
  \/ WriteNoAutofit
  \/ WriteMeasure
  \/ WriteTruncateCheck
  \/ WriteTruncateStep
  \/ WriteTruncateExit
  \/ WriteAlign
  \/ WriteDraw
  \/ WriteRotate
  \/ WritePaste
  \/ WriteReturn

SpecWrite == Init /\ [][NextWrite]_vars

\* ------------------------------------------------------- text_wrap ------

RECURSIVE SeqsUpTo(_)
SeqsUpTo(n) ==
  IF n = 0 THEN {<<>>}
  ELSE LET shorter == SeqsUpTo(n - 1)
       IN shorter \cup {Append(t, c) : t \in {u \in shorter : Len(u) = n - 1},
                                       c \in Chars}

WrapTexts == SeqsUpTo(MaxLen)

\* text.split(' '): the pieces between single spaces, empty pieces kept;
\* `cur` is the piece being read.
RECURSIVE SplitFrom(_, _)
SplitFrom(text, cur) ==
  IF text = <<>> THEN <<cur>>
  ELSE IF Head(text) = " " THEN <<cur>> \o SplitFrom(Tail(text), <<>>)
  ELSE SplitFrom(Tail(text), Append(cur, Head(text)))

split(text) == SplitFrom(text, <<>>)

\* Line 140: whether words[i] is taken into the line (i counts from 0).
WordFits(t) ==
  /\ t.i < Len(t.words)
  /\ getsize_w(t.font, t.line \o t.words[t.i + 1]) <= t.max_width

\* Line 141: the line with the word taken in.
AddWord(line, word) == line \o word \o <<" ">>

\* Line 132 and the call.
WrapCall ==
  /\ pc = "idle"
  /\ \E text \in WrapTexts, path \in FontPaths, max_width \in 1..MaxWidth :
       tw' = [text |-> text, font |-> truetype(path, CallerFontSize),
              max_width |-> max_width, words |-> <<>>, i |-> 0,
              line |-> <<>>, lines |-> <<>>]
  /\ pc' = "t133"
  /\ UNCHANGED <<wr, image, bd, ss, hist>>

\* Lines 133-134.
WrapWhole ==
  /\ pc = "t133"
  /\ getsize_w(tw.font, tw.text) < tw.max_width
  /\ tw' = [tw EXCEPT !.lines = Append(tw.lines, tw.text)]
  /\ pc' = "t147"
  /\ UNCHANGED <<wr, image, bd, ss, hist>>

\* Lines 135-137.
WrapSplit ==
  /\ pc = "t133"
  /\ ~(getsize_w(tw.font, tw.text) < tw.max_width)
  /\ tw' = [tw EXCEPT !.words = split(tw.text), !.i = 0]
  /\ pc' = "t138"
  /\ UNCHANGED <<wr, image, bd, ss, hist>>

\* Lines 138-139: the outer loop's test, and a new empty line.
WrapNewLine ==
  /\ pc = "t138"
  /\ tw.i < Len(tw.words)
  /\ tw' = [tw EXCEPT !.line = <<>>]
  /\ pc' = "t140"
  /\ UNCHANGED <<wr, image, bd, ss, hist>>

\* Line 138, the condition false.
WrapLoopExit ==
  /\ pc = "t138"
  /\ ~(tw.i < Len(tw.words))
  /\ pc' = "t147"
  /\ UNCHANGED <<wr, image, tw, bd, ss, hist>>

\* Lines 140-142: one iteration of the inner loop.
WrapAddWord ==
  /\ pc = "t140"
  /\ WordFits(tw)
  /\ tw' = [tw EXCEPT !.line = AddWord(tw.line, tw.words[tw.i + 1]),
                      !.i = tw.i + 1]
  /\ pc' = "t140"
  /\ UNCHANGED <<wr, image, bd, ss, hist>>

\* Line 140, the condition false.
WrapInnerExit ==
  /\ pc = "t140"
  /\ ~WordFits(tw)
  /\ pc' = "t143"
  /\ UNCHANGED <<wr, image, tw, bd, ss, hist>>

\* Lines 143-146 with the line empty: the word alone is the line.
WrapForceWord ==
  /\ pc = "t143"
  /\ tw.line = <<>>
  /\ LET word == tw.words[tw.i + 1]
     IN tw' = [tw EXCEPT !.line = word, !.i = tw.i + 1,
                         !.lines = Append(tw.lines, word)]
  /\ pc' = "t138"
  /\ UNCHANGED <<wr, image, bd, ss, hist>>

\* Lines 143 and 146 with words in the line.
WrapAppendLine ==
  /\ pc = "t143"
  /\ tw.line # <<>>
  /\ tw' = [tw EXCEPT !.lines = Append(tw.lines, tw.line)]
  /\ pc' = "t138"
  /\ UNCHANGED <<wr, image, bd, ss, hist>>

\* Line 147: the caller has tw.lines.
WrapReturn ==
  /\ pc = "t147"
  /\ pc' = "returned"
  /\ UNCHANGED <<wr, image, tw, bd, ss, hist>>

\* The caller goes on; the frame is gone.
WrapForget ==
  /\ pc = "returned"
  /\ pc' = "idle"
  /\ tw' = IdleWrap
  /\ UNCHANGED <<wr, image, bd, ss, hist>>

NextWrap ==
  \/ WrapCall
  \/ WrapWhole
  \/ WrapSplit
  \/ WrapNewLine
  \/ WrapLoopExit
  \/ WrapAddWord
  \/ WrapInnerExit
  \/ WrapForceWord
  \/ WrapAppendLine
  \/ WrapReturn
  \/ WrapForget

SpecWrap == Init /\ [][NextWrap]_vars

\* ----------------------------------------------------- draw_border ------

Shrinkages == {<<F0_0, F0_0>>, <<F0_1, F0_1>>, <<F0_5, F0_25>>}

\* Line 174: int(size * (1 - shrinkage)) in one dimension.
Shrunk(extent, shrink) ==
  int(extent * (Den(shrink) - Num(shrink)), Den(shrink))

\* Line 177: int((size - width) / 2) in one dimension.
CenterOffset(extent, shrunk) == int(extent - shrunk, 2)

\* EdgeLength one pixel short.
EdgeLength_short(extent, diameter) == extent - diameter - 1

\* Line 181: the length of a straight edge.
EdgeLength(extent, diameter) == extent - diameter

\* Lines 184-187: the four straight edges, each <<start, end>>.
Edges(x, y, width, height, radius) ==
  LET diameter == radius * 2
      a == EdgeLength(width, diameter)
      b == EdgeLength(height, diameter)
      p1 == <<x + radius, y>>
      p2 == <<x + radius + a, y>>
      p3 == <<x + width, y + radius>>
      p4 == <<x + width, y + radius + b>>
      p5 == <<p2[1], y + height>>
      p6 == <<p1[1], y + height>>
      p7 == <<x, p4[2]>>
      p8 == <<x, p3[2]>>
  IN <<<<p1, p2>>, <<p3, p4>>, <<p5, p6>>, <<p7, p8>>>>

\* Lines 188-193 and 203-206: the four arcs, each <<corner, corner, start
\* angle, end angle>>; none when the radius is 0.
Arcs(x, y, width, height, radius) ==
  LET diameter == radius * 2
  IN IF radius # 0
     THEN << <<<<x, y>>, <<x + diameter, y + diameter>>, 180, 270>>,
             <<<<(x + width) - diameter, y>>, <<x + width, y + diameter>>, 270, 360>>,
             <<<<(x + width) - diameter, (y + height) - diameter>>,
               <<x + width, y + height>>, 0, 90>>,
             <<<<x, (y + height) - diameter>>, <<x + diameter, y + height>>, 90, 180>> >>
     ELSE <<>>

line_op(e, thickness) == [op |-> "line", from |-> e[1], to |-> e[2], width |-> thickness]
arc_op(c, thickness) ==
  [op |-> "arc", box |-> <<c[1], c[2]>>, start |-> c[3], end |-> c[4], width |-> thickness]

\* Lines 171-206: the whole call.  Nothing in it raises: `raised` stays
\* FALSE whatever the radius.
DrawBorder ==
  /\ pc = "idle"
  /\ \E xy \in Origins, sw \in 0..MaxBorder, sh \in 0..MaxBorder,
        radius \in 0..MaxRadius, thickness \in {1}, shrinkage \in Shrinkages :
       LET width == Shrunk(sw, shrinkage[1])
           height == Shrunk(sh, shrinkage[2])
           x == xy[1] + CenterOffset(sw, width)
           y == xy[2] + CenterOffset(sh, height)
           edges == Edges(x, y, width, height, radius)
           arcs == Arcs(x, y, width, height, radius)
       IN /\ bd' = [xy |-> xy, size |-> <<sw, sh>>, radius |-> radius,
                    thickness |-> thickness, shrinkage |-> shrinkage,
                    width |-> width, height |-> height, x |-> x, y |-> y,
                    raised |-> FALSE]
          /\ image' = [k \in 1..4 |-> line_op(edges[k], thickness)]
                      \o [k \in 1..Len(arcs) |-> arc_op(arcs[k], thickness)]
  /\ pc' = "b_done"
  /\ UNCHANGED <<wr, tw, ss, hist>>

\* The caller goes on, with a canvas of its own for the next call.
BorderReturn ==
  /\ pc = "b_done"
  /\ pc' = "idle"
  /\ bd' = IdleBorder
  /\ image' = <<>>
  /\ UNCHANGED <<wr, tw, ss, hist>>

NextBorder ==
  \/ DrawBorder
  \/ BorderReturn

SpecBorder == Init /\ [][NextBorder]_vars

\* -------------------------------------------------------- Slideshow -----

ImageNames == {"a.png", "b.png", "c.jpg", "d.jpeg"}

\* The listings of n distinct names, in any order.
ListingsOf(n) ==
  {l \in [1..n -> ImageNames] : \A a, b \in 1..n : l[a] = l[b] => a = b}

\* os.listdir: distinct names, in no particular order; at most MaxImages.
Listings == UNION {ListingsOf(n) : n \in 0..MaxImages}

\* rotate turning the list the other way: somelist[-1:] + somelist[:-1].
rotate_right(somelist) ==
  SubSeq(somelist, Len(somelist), Len(somelist))
    \o SubSeq(somelist, 1, Len(somelist) - 1)

\* Lines 90-91.
rotate(somelist) ==
  SubSeq(somelist, 2, Len(somelist)) \o SubSeq(somelist, 1, 1)

\* Lines 94-97: the list the call goes on with.
NextImages(o) == IF o.first_run THEN o.images ELSE rotate(o.images)

\* Lines 65-74: the constructor with images in the folder.
SlideshowInit ==
  /\ pc = "idle"
  /\ \E listing \in Listings :
       /\ listing # <<>>
       /\ ss' = [constructed |-> TRUE, images |-> listing, first_run |-> TRUE]
       /\ hist' = [initial |-> listing, shown |-> <<>>]
  /\ pc' = "ready"
  /\ UNCHANGED <<wr, image, tw, bd>>

\* Lines 68-71: the constructor with an empty folder raises.
SlideshowInitEmpty ==
  /\ pc = "idle"
  /\ <<>> \in Listings
  /\ pc' = "FileNotFoundError"
  /\ UNCHANGED <<wr, image, tw, bd, ss, hist>>

\* Lines 89-106: one call; hist.shown records the image line 106 loads.
GenerateImage ==
  /\ pc = "ready"
  /\ Len(hist.shown) < MaxCalls
  /\ LET images == NextImages(ss)
     IN /\ ss' = [ss EXCEPT !.images = images, !.first_run = FALSE]
        /\ hist' = [hist EXCEPT !.shown = Append(hist.shown, images[1])]
  /\ UNCHANGED <<pc, wr, image, tw, bd>>

NextSlideshow ==
  \/ SlideshowInit
  \/ SlideshowInitEmpty
  \/ GenerateImage

SpecSlideshow == Init /\ [][NextSlideshow]_vars

\* ------------------------------------------------------ properties ------

\* The autofit loop of the model leaves on its condition, never on MaxSize.
AutofitCapUnused ==
  (pc = "l78" /\ wr.fitted) =>
    ~FitCond(wr.font, wr.text, wr.box_width, wr.box_height,
             wr.fill_width, wr.fill_height)

\* C1: when write() reaches the drawing step (line 100), the text it draws
\* measures no wider than the box and the reference height of 'hg' at the
\* active font is no higher than the box.
C1_DrawnTextFitsBox ==
  pc = "l100" =>
    /\ getsize_w(wr.font, wr.text) <= wr.box_width
    /\ getsize_hg(wr.font) <= wr.box_height

\* C2: the truncation loop is left once the text has been shortened to the
\* empty string: it is never at its test (line 84) with the text empty and
\* the condition still true, where dropping a character changes nothing.
C2_TruncationLeavesOnEmpty ==
  ~(pc = "l84" /\ wr.text = <<>> /\ TruncCond(wr))

\* C3: the layer composited onto the image is the rotated layer when a
\* rotation was given, and the unrotated scratch layer when none was.
C3_RotatedBufferComposited ==
  pc = "done" =>
    image[1].layer = IF wr.rotation # <<>>
                     THEN rotate_layer(wr.space[1], wr.rotation[1])
                     ELSE wr.space[1]

\* C4: the x the text is drawn at is 0 for 'left', box_width - text_width
\* for 'right' and int((box_width - text_width) / 2) for 'center' and for
\* every other alignment, None included, whatever the origin xy.
C4_AlignmentOffset ==
  pc = "l100" =>
    wr.x = (CASE wr.alignment = "left" -> 0
              [] wr.alignment = "right" -> wr.box_width - wr.text_width
              [] OTHER -> int(wr.box_width - wr.text_width, 2))

\* The words of a returned line: its non-empty pieces between spaces.
LineWords(l) == SelectSeq(split(l), LAMBDA w : w # <<>>)

\* C5: every line text_wrap() returns measures, as returned, no wider than
\* max_width, unless it consists of exactly one word that is itself wider
\* than max_width.
C5_WrappedLinesFit ==
  pc = "returned" =>
    \A k \in 1..Len(tw.lines) :
      \/ getsize_w(tw.font, tw.lines[k]) <= tw.max_width
      \/ /\ Len(LineWords(tw.lines[k])) = 1
         /\ getsize_w(tw.font, LineWords(tw.lines[k])[1]) > tw.max_width

\* C6: draw_border() with radius > 0 and radius * 2 above the shrunk width
\* or height reports an error and draws nothing.
C6_DegenerateRadiusRejected ==
  (/\ pc = "b_done"
   /\ bd.radius > 0
   /\ (bd.radius * 2 > bd.width \/ bd.radius * 2 > bd.height)) =>
    (bd.raised /\ image = <<>>)

\* C7: when the autofit branch ran and size 8 satisfied the fit condition,
\* the font left active still satisfies the condition and the next larger
\* size does not.
C7_AutofitLargestFitting ==
  (/\ pc = "l78"
   /\ wr.fitted
   /\ FitCond(truetype(wr.font.path, MinFontSize), wr.text, wr.box_width,
              wr.box_height, wr.fill_width, wr.fill_height)) =>
    /\ FitCond(wr.font, wr.text, wr.box_width, wr.box_height,
               wr.fill_width, wr.fill_height)
    /\ ~FitCond(truetype(wr.font.path, wr.font.size + 1), wr.text,
                wr.box_width, wr.box_height, wr.fill_width, wr.fill_height)

\* The size the autofit branch chooses for the text, font file and fill
\* ratios of the running call in a box of the given width and height.
SizeIn(box_width, box_height) ==
  AutofitFont(wr.font.path, wr.text, box_width, box_height,
              wr.fill_width, wr.fill_height).size

\* C8: autofit is monotone in the box: with the text, font file and fill
\* ratios fixed, no box that is no wider and no higher than the call's box
\* is given a larger size than the call's box.
C8_AutofitMonotone ==
  (pc = "l78" /\ wr.fitted) =>
    \A bw1 \in 0..wr.box_width, bh1 \in 0..wr.box_height :
      SizeIn(bw1, bh1) <= wr.font.size

\* C8's case: the loop has grown the font for the call's box, and a box
\* smaller in both dimensions is given a strictly smaller size.
C8_Witness ==
  /\ pc = "l78"
  /\ wr.fitted
  /\ wr.font.size > MinFontSize + 1
  /\ \E bw1 \in 0..wr.box_width, bh1 \in 0..wr.box_height :
       /\ bw1 < wr.box_width
       /\ bh1 < wr.box_height
       /\ MinFontSize < SizeIn(bw1, bh1)
       /\ SizeIn(bw1, bh1) < wr.font.size

\* The drawn lines and arcs of the canvas.
DrawnLines == SelectSeq(image, LAMBDA o : o.op = "line")
DrawnArcs == SelectSeq(image, LAMBDA o : o.op = "arc")

\* C9: with radius 0 the four edges close a rectangle: each edge ends where
\* the next starts, at the corners (x, y), (x + width, y),
\* (x + width, y + height), (x, y + height) of the inset box, and no arc is
\* drawn.
C9_SquareBorderClosed ==
  (pc = "b_done" /\ bd.radius = 0) =>
    /\ Len(DrawnLines) = 4
    /\ DrawnArcs = <<>>
    /\ DrawnLines[4].to = DrawnLines[1].from
    /\ DrawnLines[1].from = <<bd.x, bd.y>>
    /\ DrawnLines[1].to = DrawnLines[2].from
    /\ DrawnLines[2].from = <<bd.x + bd.width, bd.y>>
    /\ DrawnLines[2].to = DrawnLines[3].from
    /\ DrawnLines[3].from = <<bd.x + bd.width, bd.y + bd.height>>
    /\ DrawnLines[3].to = DrawnLines[4].from
    /\ DrawnLines[4].from = <<bd.x, bd.y + bd.height>>

\* C9's case: a square border of a shrunk, off-origin box with an area.
C9_Witness ==
  /\ pc = "b_done"
  /\ bd.radius = 0
  /\ bd.width > 0 /\ bd.width < bd.size[1]
  /\ bd.height > 0 /\ bd.height < bd.size[2]
  /\ bd.x > 0
  /\ Len(DrawnLines) = 4

\* C10: the k-th call shows the image at place (k - 1) mod N of the initial
\* list, the list is the initial list turned (k - 1) mod N places (before
\* the first call: the initial list), and any N calls in a row show N
\* different images.
C10_SlideshowCycles ==
  ss.constructed =>
    LET N == Len(hist.initial)
        k == Len(hist.shown)
    IN /\ N >= 1
       /\ \A j \in 1..k : hist.shown[j] = hist.initial[((j - 1) % N) + 1]
       /\ ss.images = SubSeq(hist.initial, (IF k = 0 THEN 0 ELSE (k - 1) % N) + 1, N)
                      \o SubSeq(hist.initial, 1, IF k = 0 THEN 0 ELSE (k - 1) % N)
       /\ ss.first_run = (k = 0)
       /\ \A j \in 1..(k - N + 1) :
            {hist.shown[m] : m \in j..(j + N - 1)} = {hist.initial[m] : m \in 1..N}

\* C10's case: more calls than images, so the list has come round.
C10_Witness ==
  /\ ss.constructed
  /\ Len(hist.initial) >= 2
  /\ Len(hist.shown) > Len(hist.initial) + 1
  /\ hist.shown[Len(hist.initial) + 1] = hist.initial[1]

====
